---- MODULE Spec2Model ----
(***************************************************************************)
(* The relay broker of src/server.js (the complete variant, lines 178-519):*)
(* connection registry, message dispatcher and transfer coordinator.       *)
(*                                                                         *)
(* One action per event-loop callback: connection, incoming, close; a      *)
(* fourth, closing, is the transport taking a connection out of OPEN       *)
(* before its "close" callback runs.  A handler runs to completion, so an  *)
(* action is the whole handler.  What a handler does to the outside world  *)
(* (Blob Store writes, send calls) is recorded, in program order, in       *)
(* `effects`; `event` names the callback that produced them.               *)
(*                                                                         *)
(* The first variant in the file (lines 1-177) redeclares the same         *)
(* top-level constants and is an earlier copy of the same server; the      *)
(* model is of the second.                                                 *)
(***************************************************************************)
EXTENDS Integers, Sequences, FiniteSets, TLC

\* ----------------------------------------------------------------- bounds
\* Number of transport connections accepted during a run.
NConn == 3
\* Number of register_device frames handled during a run.
MaxIds == 3
\* Number of connections that may hold a pending transfer at a time.
MaxPending == 1

Conns == 1..NConn

\* ------------------------------------------------------------- JS values
undefined == "undefined"
null == [null |-> TRUE]
SyntaxError == [threw |-> "SyntaxError"]

\* "client_" + n (line 257)
ClientId(n) == "client_" \o ToString(n)

\* `Device-${ws.id.substring(0, 6)}` (line 252); ws.id is the connection's
\* unique id, here the connection's number.
DefaultDeviceName(ws) == "Device-" \o ToString(ws)

\* x || y
Or(x, y) == IF x = undefined THEN y ELSE x

\* --------------------------------------------------------------- inputs
DeviceNames == {undefined, "phone"}
Filenames == {"a.txt", "b.txt"}
Sizes == {3}
ContentTypes == {"text/plain"}
Payloads == {"abc", "xyz"}
Paths == {undefined, "/x"}
FileLists == {undefined, "files"}
\* A `files` value that is not an array of file entries: (data.files ||
\* []).filter(file => file.isDirectory) throws on it (line 280).
MalformedFiles == "not-a-list"
\* client_0 is never allocated: the counter starts at 1.
DeviceIds == {ClientId(n) : n \in 0..MaxIds}

\* A decoded structured payload.  Every field a handler reads is present;
\* a field the client left out is undefined.
Blank == [type |-> undefined, targetId |-> undefined, filename |-> undefined,
          size |-> 0, contentType |-> undefined, deviceName |-> undefined,
          requesterId |-> undefined, path |-> undefined, files |-> undefined,
          granted |-> FALSE]

Data ==
       {[Blank EXCEPT !.type = "file_metadata", !.targetId = t, !.filename = f,
                      !.size = s, !.contentType = ct] :
            t \in DeviceIds \cup {undefined}, f \in Filenames, s \in Sizes,
            ct \in ContentTypes}
  \cup {[Blank EXCEPT !.type = "request_file", !.targetId = t, !.filename = f] :
            t \in DeviceIds \cup {undefined}, f \in Filenames \cup {undefined}}
  \cup {[Blank EXCEPT !.type = "register_device", !.deviceName = n] :
            n \in DeviceNames}
  \cup {[Blank EXCEPT !.type = "initial_file_list_response", !.files = fl] :
            fl \in FileLists \cup {MalformedFiles}}
  \cup {[Blank EXCEPT !.type = ty] : ty \in {"get_connected_devices", "ping", "chat"}}
  \cup {[Blank EXCEPT !.type = "list_files", !.targetId = t, !.path = p] :
            t \in DeviceIds \cup {undefined}, p \in Paths}
  \cup {[Blank EXCEPT !.type = "file_list_response", !.requesterId = r,
                      !.path = p, !.files = fl] :
            r \in DeviceIds \cup {undefined}, p \in Paths, fl \in FileLists}
  \cup {[Blank EXCEPT !.type = "request_file_access", !.targetId = t] :
            t \in DeviceIds \cup {undefined}}
  \cup {[Blank EXCEPT !.type = "file_access_response", !.requesterId = r,
                      !.granted = g] :
            r \in DeviceIds \cup {undefined}, g \in BOOLEAN}

\* An inbound frame as the "message" callback sees it: whether it arrives as
\* a string, whether its text starts with '{', what JSON.parse makes of it,
\* and its bytes when it is file content.
TextFrame(d) == [isString |-> TRUE, startsWithBrace |-> TRUE, parse |-> d, bytes |-> ""]
BraceBuffer(d) == [isString |-> FALSE, startsWithBrace |-> TRUE, parse |-> d, bytes |-> ""]
BinaryFrame(p) == [isString |-> FALSE, startsWithBrace |-> FALSE, parse |-> SyntaxError, bytes |-> p]

\* The frames of each part of the protocol.  Only register_device, a
\* targeted file_metadata and file content change the broker's state, so
\* leaving the other frames out of a specification removes none of the
\* broker states that specification can reach.
RegisterFrames ==
  {TextFrame([Blank EXCEPT !.type = "register_device", !.deviceName = n]) :
     n \in DeviceNames}

Structured(type) == {TextFrame(d) : d \in {x \in Data : x.type = type}}

\* Registration, listing, and a relay that looks a device id up.
RegistryMessages ==
  RegisterFrames
  \cup Structured("get_connected_devices")
  \cup {m \in Structured("list_files") : m.parse.targetId # undefined /\ m.parse.path = "/x"}

\* Targeted transfers of one file name, by named devices, to an id that is
\* never allocated and to the first id allocated.
TransferIds == {ClientId(0), ClientId(1)}
TransferMessages ==
  {m \in RegisterFrames : m.parse.deviceName = "phone"}
  \cup {m \in Structured("file_metadata") :
          m.parse.targetId \in TransferIds /\ m.parse.filename = "a.txt"}
  \cup {BinaryFrame(p) : p \in Payloads}

\* Transfers announced without a target.
SimpleMessages ==
  {m \in RegisterFrames : m.parse.deviceName = "phone"}
  \cup {m \in Structured("file_metadata") : m.parse.targetId = undefined}
  \cup {BinaryFrame(p) : p \in Payloads}

\* The relays addressed to a device id.
RelayMessages ==
  {m \in RegisterFrames : m.parse.deviceName = "phone"}
  \cup Structured("request_file")
  \cup Structured("list_files")
  \cup Structured("request_file_access")

\* Directory listings and access requests, and the responses to them.
ListingMessages ==
  {m \in RegisterFrames : m.parse.deviceName = "phone"}
  \cup {m \in Structured("list_files") : m.parse.targetId # undefined}
  \cup {m \in Structured("file_list_response") : m.parse.requesterId # undefined}
  \cup Structured("file_access_response")

\* Frames that fail to decode, among registrations, announcements and pings.
DecodeMessages ==
  {m \in RegisterFrames : m.parse.deviceName = "phone"}
  \cup {m \in Structured("file_metadata") :
          m.parse.targetId = ClientId(1) /\ m.parse.filename = "a.txt"}
  \cup {m \in Structured("ping") : TRUE}
  \cup {TextFrame(SyntaxError), BraceBuffer(SyntaxError)}

\* Frames no branch of the dispatcher takes: an unknown type, and relay
\* types without the targetId their branch tests for.
DefaultMessages ==
  {m \in RegisterFrames : m.parse.deviceName = "phone"}
  \cup Structured("chat")
  \cup {m \in Structured("list_files") :
          m.parse.targetId = undefined /\ m.parse.path = "/x"}
  \cup {m \in Structured("request_file_access") : m.parse.targetId = undefined}

\* Targeted transfers of one file to one device id and of another file to
\* another device id.
LastWriteMessages ==
  {m \in RegisterFrames : m.parse.deviceName = "phone"}
  \cup {m \in Structured("file_metadata") :
          \/ m.parse.targetId = ClientId(1) /\ m.parse.filename = "a.txt"
          \/ m.parse.targetId = ClientId(2) /\ m.parse.filename = "b.txt"}
  \cup {BinaryFrame("abc")}

\* Registration and the file listing a device sends after it.
FilesMessages ==
  RegisterFrames \cup Structured("initial_file_list_response")

\* Every frame that is relayed to a device id, addressed to the first id
\* allocated.
GateIds == {ClientId(1)}
GateMessages ==
  {m \in RegisterFrames : m.parse.deviceName = "phone"}
  \cup {m \in Structured("request_file") :
          m.parse.targetId \in GateIds /\ m.parse.filename = "a.txt"}
  \cup {m \in Structured("list_files") :
          m.parse.targetId \in GateIds /\ m.parse.path = "/x"}
  \cup {m \in Structured("request_file_access") : m.parse.targetId \in GateIds}
  \cup {m \in Structured("file_list_response") :
          /\ m.parse.requesterId \in GateIds
          /\ m.parse.path = "/x" /\ m.parse.files = "files"}
  \cup {m \in Structured("file_access_response") :
          m.parse.requesterId \in GateIds /\ m.parse.granted}
  \cup {m \in Structured("file_metadata") :
          m.parse.targetId \in GateIds /\ m.parse.filename = "a.txt"}
  \cup {BinaryFrame("abc")}

\* Every frame of the model.
Messages ==
       {TextFrame(d) : d \in Data \cup {SyntaxError}}
  \cup {BraceBuffer(d) : d \in {SyntaxError, [Blank EXCEPT !.type = "chat"]}}
  \cup {BinaryFrame(p) : p \in Payloads}

\* ----------------------------------------------------------------- state
VARIABLES
  clients,          \* the Set `clients`, in insertion order
  readyState,       \* ws.readyState of every connection object
  deviceName,       \* ws.deviceName
  deviceInfo,       \* ws.deviceInfo: null or {id, deviceName}
  fileMetadata,     \* ws.fileMetadata
  clientIdCounter,  \* clientIdCounter
  pendingTransfers, \* the Map `pendingTransfers`, keyed by connection object
  uploads,          \* the uploads directory: filename -> bytes
  event,            \* the callback handled last
  effects,          \* what that callback wrote and sent, in order
  issued,           \* every device id allocated so far, in allocation order
  announced,        \* per connection, the targeted file_metadata frames handled
                    \* since its last binary frame (the latest two of them, a
                    \* frame repeated unchanged counting once)
  resolved          \* per connection, the connection that the targetId of the
                    \* latest of those frames resolved to when it was handled
                    \* (0: none)

vars == <<clients, readyState, deviceName, deviceInfo, fileMetadata,
          clientIdCounter, pendingTransfers, uploads, event, effects, issued,
          announced, resolved>>

\* ------------------------------------------------------------- effects
\* A send call on a connection.  The handlers that test readyState make the
\* call on open connections only; ws.send, target.send and requester.send
\* are made untested, and the transport drops what is sent to a connection
\* that is no longer open.
Send(to, frame) == [op |-> "send", to |-> to, frame |-> frame]
Write(filename, bytes) == [op |-> "write", filename |-> filename, bytes |-> bytes]

\* JSON.stringify of a broker frame is the frame; a forwarded Buffer is its bytes.
Binary(bytes) == [binary |-> bytes]
ErrorFrame(message) == [type |-> "error", message |-> message]

\* clients.forEach(client => { if (client.readyState === WebSocket.OPEN) ... })
OpenClients(cl, rs) == SelectSeq(cl, LAMBDA c : rs[c] = "OPEN")

SendEach(recipients, frame) ==
  [i \in 1..Len(recipients) |-> Send(recipients[i], frame)]

\* getClientList (lines 199-206), of a given client set and deviceInfo fields
getClientList(cl, di) ==
  LET registered == SelectSeq(cl, LAMBDA c : di[c] # null)
  IN  [i \in 1..Len(registered) |->
         [id |-> di[registered[i]].id, name |-> di[registered[i]].deviceName]]

ConnectedDevices(list) == [type |-> "connected_devices", devices |-> list]

\* broadcastConnectedDevices without its readyState check.
broadcastConnectedDevices_noOpenCheck(cl, rs, di) ==
  SendEach(cl, ConnectedDevices(getClientList(cl, di)))

\* broadcastConnectedDevices (lines 507-519)
broadcastConnectedDevices(cl, rs, di) ==
  SendEach(OpenClients(cl, rs), ConnectedDevices(getClientList(cl, di)))

\* sendConnectedDevices (lines 497-504)
sendConnectedDevices(client) ==
  IF readyState[client] = "OPEN"
  THEN <<Send(client, ConnectedDevices(getClientList(clients, deviceInfo)))>>
  ELSE <<>>

\* Array.from(cl).find(c => c.deviceInfo && c.deviceInfo.id === id);
\* 0 stands for the undefined that find returns when nothing matches.
find(cl, di, id) ==
  LET found == SelectSeq(cl, LAMBDA c : di[c] # null /\ di[c].id = id)
  IN  IF Len(found) > 0 THEN found[1] ELSE 0

findClient(id) == find(clients, deviceInfo, id)

\* ------------------------------------------------------------------ Init
Init ==
  /\ clients = <<>>
  /\ readyState = [c \in Conns |-> "CONNECTING"]
  /\ deviceName = [c \in Conns |-> undefined]
  /\ deviceInfo = [c \in Conns |-> null]
  /\ fileMetadata = [c \in Conns |-> null]
  /\ clientIdCounter = 1
  /\ pendingTransfers = [c \in Conns |-> null]
  /\ uploads = [f \in Filenames |-> undefined]
  /\ event = [kind |-> "start"]
  /\ effects = <<>>
  /\ issued = <<>>
  /\ announced = [c \in Conns |-> <<>>]
  /\ resolved = [c \in Conns |-> 0]

\* ------------------------------------------------------------ connection
\* wss.on("connection", ...) (lines 208-220): a new connection object.
connection(ws) ==
  /\ readyState[ws] = "CONNECTING"
  /\ \A c \in Conns : c < ws => readyState[c] # "CONNECTING"
  /\ readyState' = [readyState EXCEPT ![ws] = "OPEN"]
  /\ deviceName' = [deviceName EXCEPT ![ws] = "Unknown Device"]
  /\ deviceInfo' = [deviceInfo EXCEPT ![ws] = null]
  /\ clients' = Append(clients, ws)
  /\ effects' = broadcastConnectedDevices(clients', readyState', deviceInfo')
  /\ event' = [kind |-> "connection", ws |-> ws]
  /\ UNCHANGED <<fileMetadata, clientIdCounter, pendingTransfers, uploads, issued,
                 announced, resolved>>

\* The transport starts closing a connection (close frame received, socket
\* error): readyState leaves OPEN before the "close" callback runs.
closing(ws) ==
  /\ readyState[ws] = "OPEN"
  /\ readyState' = [readyState EXCEPT ![ws] = "CLOSING"]
  /\ event' = [kind |-> "closing", ws |-> ws]
  /\ effects' = <<>>
  /\ UNCHANGED <<clients, deviceName, deviceInfo, fileMetadata, clientIdCounter,
                 pendingTransfers, uploads, issued, announced, resolved>>

\* The "close" callback computing the list before clients.delete(ws).
close_listBeforeDelete(ws) ==
  /\ readyState[ws] \in {"OPEN", "CLOSING"}
  /\ readyState' = [readyState EXCEPT ![ws] = "CLOSED"]
  /\ clients' = SelectSeq(clients, LAMBDA c : c # ws)
  /\ effects' = SendEach(OpenClients(clients', readyState'),
                       ConnectedDevices(getClientList(clients, deviceInfo)))
  /\ event' = [kind |-> "close", ws |-> ws]
  /\ UNCHANGED <<deviceName, deviceInfo, fileMetadata, clientIdCounter,
                 pendingTransfers, uploads, issued, announced, resolved>>

\* ws.on("close", ...) (lines 475-490)
close(ws) ==
  /\ readyState[ws] \in {"OPEN", "CLOSING"}
  /\ readyState' = [readyState EXCEPT ![ws] = "CLOSED"]
  /\ clients' = SelectSeq(clients, LAMBDA c : c # ws)
  /\ effects' = SendEach(OpenClients(clients', readyState'),
                       ConnectedDevices(getClientList(clients', deviceInfo)))
  /\ event' = [kind |-> "close", ws |-> ws]
  /\ UNCHANGED <<deviceName, deviceInfo, fileMetadata, clientIdCounter,
                 pendingTransfers, uploads, issued, announced, resolved>>

\* ------------------------------------------------------------- incoming
\* The state a handler starts from, with nothing written or sent yet.  A
\* branch of the handler is an operator from (ws, input) to the state and
\* effects it leaves behind.
Base ==
  [deviceName |-> deviceName, deviceInfo |-> deviceInfo,
   fileMetadata |-> fileMetadata, clientIdCounter |-> clientIdCounter,
   pendingTransfers |-> pendingTransfers, uploads |-> uploads,
   issued |-> issued, announced |-> announced, resolved |-> resolved,
   effects |-> <<>>]

\* The catch block reporting the failure to every open client.
Catch_broadcasts(ws, r) ==
  [r EXCEPT !.effects = @ \o SendEach(OpenClients(clients, readyState),
                                      ErrorFrame("Failed to process message"))]

\* catch (error) { ... ws.send(error) } (lines 469-472): what the try block
\* did before it threw stays done.
Catch(ws, r) ==
  [r EXCEPT !.effects = Append(@, Send(ws, ErrorFrame("Failed to process message")))]

\* Line 226: typeof message === "string" ||
\*           message instanceof Buffer && message.toString().startsWith('{')
IsStructured(message) == message.isString \/ message.startsWithBrace

\* The latest two elements of a sequence.
LastTwo(seq) == IF Len(seq) <= 2 THEN seq ELSE SubSeq(seq, Len(seq) - 1, Len(seq))

\* The announcements of a connection once it has made another one.
Announce(seq, data) ==
  IF Len(seq) > 0 /\ seq[Len(seq)] = data THEN seq
  ELSE LastTwo(Append(seq, data))

\* file_metadata with targetId (lines 231-236)
fileMetadataTargeted(ws, data) ==
  [Base EXCEPT
     !.pendingTransfers[ws] = [targetId |-> data.targetId, metadata |-> data],
     !.announced[ws] = Announce(announced[ws], data),
     !.resolved[ws] = findClient(data.targetId),
     !.effects = <<Send(ws, [type |-> "ready_for_file"])>>]

\* request_file that also tells the requester the request was passed on.
requestFile_acknowledges(ws, data) ==
  LET target == findClient(data.targetId)
  IN  IF target # 0
      THEN IF deviceInfo[ws] = null
           THEN Catch(ws, Base)
           ELSE [Base EXCEPT !.effects =
                   <<Send(target, [type |-> "request_file",
                                   filename |-> data.filename,
                                   fromId |-> deviceInfo[ws].id]),
                     Send(ws, [type |-> "request_file",
                               filename |-> data.filename,
                               fromId |-> deviceInfo[ws].id])>>]
      ELSE Base

\* request_file with targetId and filename (lines 238-249)
requestFile(ws, data) ==
  LET target == findClient(data.targetId)
  IN  IF target # 0
      THEN IF deviceInfo[ws] = null
           THEN Catch(ws, Base)   \* ws.deviceInfo.id throws a TypeError
           ELSE [Base EXCEPT !.effects =
                   <<Send(target, [type |-> "request_file",
                                   filename |-> data.filename,
                                   fromId |-> deviceInfo[ws].id])>>]
      ELSE Base

\* register_device that reads clientIdCounter without incrementing it.
registerDevice_noIncrement(ws, data) ==
  LET info == [id |-> ClientId(clientIdCounter),
               deviceName |-> Or(data.deviceName, "Unknown")]
      di == [deviceInfo EXCEPT ![ws] = info]
  IN  [Base EXCEPT
         !.deviceName[ws] = Or(data.deviceName, DefaultDeviceName(ws)),
         !.deviceInfo = di,
         !.issued = Append(issued, info.id),
         !.effects =
            SendEach(OpenClients(clients, readyState),
                     ConnectedDevices(getClientList(clients, di)))
            \o <<Send(ws, [type |-> "request_initial_file_list"])>>]

\* register_device that keeps the id of a connection already registered
\* (ws.deviceInfo = ws.deviceInfo || {...}), still consuming a counter value.
registerDevice_keepsDevice(ws, data) ==
  LET info == IF deviceInfo[ws] # null THEN deviceInfo[ws]
              ELSE [id |-> ClientId(clientIdCounter),
                    deviceName |-> Or(data.deviceName, "Unknown")]
      di == [deviceInfo EXCEPT ![ws] = info]
  IN  [Base EXCEPT
         !.deviceName[ws] = Or(data.deviceName, DefaultDeviceName(ws)),
         !.deviceInfo = di,
         !.clientIdCounter = clientIdCounter + 1,
         !.issued = IF deviceInfo[ws] # null THEN issued ELSE Append(issued, info.id),
         !.effects =
            SendEach(OpenClients(clients, readyState),
                     ConnectedDevices(getClientList(clients, di)))
            \o <<Send(ws, [type |-> "request_initial_file_list"])>>]

\* register_device (lines 250-276)
registerDevice(ws, data) ==
  LET info == [id |-> ClientId(clientIdCounter),
               deviceName |-> Or(data.deviceName, "Unknown")]
      di == [deviceInfo EXCEPT ![ws] = info]
  IN  [Base EXCEPT
         !.deviceName[ws] = Or(data.deviceName, DefaultDeviceName(ws)),
         !.deviceInfo = di,
         !.clientIdCounter = clientIdCounter + 1,
         !.issued = Append(issued, info.id),
         !.effects =
            SendEach(OpenClients(clients, readyState),
                     ConnectedDevices(getClientList(clients, di)))
            \o <<Send(ws, [type |-> "request_initial_file_list"])>>]

\* initial_file_list_response fanned out without the deviceInfo test.
initialFileListResponse_toEveryOpenClient(ws, data) ==
  LET others == SelectSeq(clients, LAMBDA c : c # ws /\ readyState[c] = "OPEN")
  IN  IF data.files = MalformedFiles
      THEN Catch(ws, Base)   \* the filter of line 280 throws a TypeError
      ELSE IF Len(others) = 0 THEN Base
      ELSE IF deviceInfo[ws] = null
      THEN Catch(ws, Base)
      ELSE [Base EXCEPT !.effects =
              SendEach(others, [type |-> "device_files_update",
                                deviceId |-> deviceInfo[ws].id,
                                deviceName |-> deviceName[ws],
                                files |-> Or(data.files, "[]")])]

\* initial_file_list_response (lines 277-301)
initialFileListResponse(ws, data) ==
  LET others == SelectSeq(clients, LAMBDA c :
                  c # ws /\ readyState[c] = "OPEN" /\ deviceInfo[c] # null)
  IN  IF data.files = MalformedFiles
      THEN Catch(ws, Base)   \* the filter of line 280 throws a TypeError
      ELSE IF Len(others) = 0 THEN Base
      ELSE IF deviceInfo[ws] = null
      THEN Catch(ws, Base)   \* ws.deviceInfo.id throws at the first recipient
      ELSE [Base EXCEPT !.effects =
              SendEach(others, [type |-> "device_files_update",
                                deviceId |-> deviceInfo[ws].id,
                                deviceName |-> deviceName[ws],
                                files |-> Or(data.files, "[]")])]

\* get_connected_devices (lines 302-305)
getConnectedDevices(ws, data) ==
  [Base EXCEPT !.effects = sendConnectedDevices(ws)]

\* ping (lines 306-309)
ping(ws, data) ==
  [Base EXCEPT !.effects = <<Send(ws, [type |-> "pong"])>>]

TargetNotFound == ErrorFrame("Target device not found or offline")

\* list_files reading the requester's id as ws.deviceInfo?.id.
listFiles_optionalChaining(ws, data) ==
  LET target == findClient(data.targetId)
  IN  IF target # 0
      THEN [Base EXCEPT !.effects =
              <<Send(target, [type |-> "request_file_list",
                              requesterId |-> IF deviceInfo[ws] = null THEN undefined
                                              ELSE deviceInfo[ws].id,
                              path |-> Or(data.path, "")])>>]
      ELSE [Base EXCEPT !.effects = <<Send(ws, TargetNotFound)>>]

\* list_files with targetId (lines 310-330)
listFiles(ws, data) ==
  LET target == findClient(data.targetId)
  IN  IF target # 0
      THEN IF deviceInfo[ws] = null
           THEN Catch(ws, Base)   \* ws.deviceInfo.id throws in the console.log
           ELSE [Base EXCEPT !.effects =
                   <<Send(target, [type |-> "request_file_list",
                                   requesterId |-> deviceInfo[ws].id,
                                   path |-> Or(data.path, "")])>>]
      ELSE [Base EXCEPT !.effects = <<Send(ws, TargetNotFound)>>]

\* file_list_response tagging the listing with the id it was addressed to.
fileListResponse_tagsRequester(ws, data) ==
  LET requester == findClient(data.requesterId)
  IN  IF requester # 0
      THEN IF deviceInfo[ws] = null
           THEN Catch(ws, Base)
           ELSE [Base EXCEPT !.effects =
                   <<Send(requester, [type |-> "file_list_response",
                                      sourceId |-> data.requesterId,
                                      sourcePath |-> Or(data.path, ""),
                                      sourceName |-> deviceName[ws],
                                      files |-> Or(data.files, "[]"),
                                      requesterId |-> data.requesterId])>>]
      ELSE Base

\* file_list_response with requesterId (lines 331-346)
fileListResponse(ws, data) ==
  LET requester == findClient(data.requesterId)
  IN  IF requester # 0
      THEN IF deviceInfo[ws] = null
           THEN Catch(ws, Base)
           ELSE [Base EXCEPT !.effects =
                   <<Send(requester, [type |-> "file_list_response",
                                      sourceId |-> deviceInfo[ws].id,
                                      sourcePath |-> Or(data.path, ""),
                                      sourceName |-> deviceName[ws],
                                      files |-> Or(data.files, "[]"),
                                      requesterId |-> data.requesterId])>>]
      ELSE Base

\* request_file_access without its else branch, as request_file is written.
requestFileAccess_silentOnUnknown(ws, data) ==
  LET target == findClient(data.targetId)
  IN  IF target # 0
      THEN IF deviceInfo[ws] = null
           THEN Catch(ws, Base)
           ELSE [Base EXCEPT !.effects =
                   <<Send(target, [type |-> "file_access_request",
                                   requesterId |-> deviceInfo[ws].id,
                                   requesterName |-> deviceName[ws]])>>]
      ELSE Base

\* request_file_access with targetId (lines 347-365)
requestFileAccess(ws, data) ==
  LET target == findClient(data.targetId)
  IN  IF target # 0
      THEN IF deviceInfo[ws] = null
           THEN Catch(ws, Base)
           ELSE [Base EXCEPT !.effects =
                   <<Send(target, [type |-> "file_access_request",
                                   requesterId |-> deviceInfo[ws].id,
                                   requesterName |-> deviceName[ws]])>>]
      ELSE [Base EXCEPT !.effects = <<Send(ws, TargetNotFound)>>]

\* file_access_response telling the responder that the requester is gone.
fileAccessResponse_errorsOnUnknown(ws, data) ==
  LET requester == findClient(data.requesterId)
  IN  IF requester # 0
      THEN IF deviceInfo[ws] = null
           THEN Catch(ws, Base)
           ELSE [Base EXCEPT !.effects =
                   <<Send(requester, [type |-> "file_access_response",
                                      granted |-> data.granted,
                                      targetId |-> deviceInfo[ws].id,
                                      targetName |-> deviceName[ws]])>>]
      ELSE [Base EXCEPT !.effects = <<Send(ws, TargetNotFound)>>]

\* file_access_response (lines 366-380)
fileAccessResponse(ws, data) ==
  LET requester == findClient(data.requesterId)
  IN  IF requester # 0
      THEN IF deviceInfo[ws] = null
           THEN Catch(ws, Base)
           ELSE [Base EXCEPT !.effects =
                   <<Send(requester, [type |-> "file_access_response",
                                      granted |-> data.granted,
                                      targetId |-> deviceInfo[ws].id,
                                      targetName |-> deviceName[ws]])>>]
      ELSE Base

\* Regular text message (lines 381-394)
regularMessage(ws, data) ==
  LET others == SelectSeq(clients, LAMBDA c : c # ws /\ readyState[c] = "OPEN")
  IN  [Base EXCEPT !.effects =
         <<Send(ws, [type |-> "message", text |-> <<"You said: ", data>>])>>
         \o SendEach(others, [type |-> "message", text |-> <<"Someone said: ", data>>])]

\* The if / else-if chain on data.type (lines 231-394)
dispatch(ws, data) ==
  IF data.type = "file_metadata" /\ data.targetId # undefined
    THEN fileMetadataTargeted(ws, data)
  ELSE IF data.type = "request_file" /\ data.targetId # undefined
          /\ data.filename # undefined
    THEN requestFile(ws, data)
  ELSE IF data.type = "register_device" THEN registerDevice(ws, data)
  ELSE IF data.type = "initial_file_list_response"
    THEN initialFileListResponse(ws, data)
  ELSE IF data.type = "get_connected_devices" THEN getConnectedDevices(ws, data)
  ELSE IF data.type = "ping" THEN ping(ws, data)
  ELSE IF data.type = "list_files" /\ data.targetId # undefined
    THEN listFiles(ws, data)
  ELSE IF data.type = "file_list_response" /\ data.requesterId # undefined
    THEN fileListResponse(ws, data)
  ELSE IF data.type = "request_file_access" /\ data.targetId # undefined
    THEN requestFileAccess(ws, data)
  ELSE IF data.type = "file_access_response" THEN fileAccessResponse(ws, data)
  ELSE regularMessage(ws, data)

\* The pending-transfer branch saving the file only inside `if (target)`.
pendingTransfer_storeOnlyWhenForwarded(ws, bytes) ==
  LET targetId == pendingTransfers[ws].targetId
      metadata == pendingTransfers[ws].metadata
      saved == [Base EXCEPT !.uploads[metadata.filename] = bytes,
                            !.effects = <<Write(metadata.filename, bytes)>>]
      target == findClient(targetId)
  IN  IF target # 0
      THEN IF deviceInfo[ws] = null
           THEN Catch(ws, saved)
           ELSE [saved EXCEPT
                   !.effects = @ \o
                     <<Send(target, [type |-> "file_metadata",
                                     filename |-> metadata.filename,
                                     size |-> metadata.size,
                                     contentType |-> metadata.contentType,
                                     fromId |-> deviceInfo[ws].id]),
                       Send(target, Binary(bytes)),
                       Send(ws, [type |-> "file_transferred",
                                 filename |-> metadata.filename,
                                 stored |-> TRUE, forwarded |-> TRUE])>>,
                   !.pendingTransfers[ws] = null]
      ELSE [Base EXCEPT
              !.effects =
                <<Send(ws, [type |-> "file_transferred",
                            filename |-> metadata.filename,
                            stored |-> TRUE, forwarded |-> FALSE,
                            error |-> "Target client not found or disconnected"])>>,
              !.pendingTransfers[ws] = null]

\* Binary data with a pending transfer (lines 397-438)
pendingTransfer(ws, bytes) ==
  LET targetId == pendingTransfers[ws].targetId
      metadata == pendingTransfers[ws].metadata
      saved == [Base EXCEPT !.uploads[metadata.filename] = bytes,
                            !.effects = <<Write(metadata.filename, bytes)>>]
      target == findClient(targetId)
  IN  IF target # 0
      THEN IF deviceInfo[ws] = null
           THEN Catch(ws, saved)   \* ws.deviceInfo.id throws before target.send
           ELSE [saved EXCEPT
                   !.effects = @ \o
                     <<Send(target, [type |-> "file_metadata",
                                     filename |-> metadata.filename,
                                     size |-> metadata.size,
                                     contentType |-> metadata.contentType,
                                     fromId |-> deviceInfo[ws].id]),
                       Send(target, Binary(bytes)),
                       Send(ws, [type |-> "file_transferred",
                                 filename |-> metadata.filename,
                                 stored |-> TRUE, forwarded |-> TRUE])>>,
                   !.pendingTransfers[ws] = null]
      ELSE [saved EXCEPT
              !.effects = @ \o
                <<Send(ws, [type |-> "file_transferred",
                            filename |-> metadata.filename,
                            stored |-> TRUE, forwarded |-> FALSE,
                            error |-> "Target client not found or disconnected"])>>,
              !.pendingTransfers[ws] = null]

\* Binary data with ws.fileMetadata (lines 439-463)
simpleTransfer(ws, bytes) ==
  LET filename == fileMetadata[ws].filename
      others == SelectSeq(clients, LAMBDA c : c # ws /\ readyState[c] = "OPEN")
  IN  [Base EXCEPT
         !.uploads[filename] = bytes,
         !.effects = <<Write(filename, bytes),
                       Send(ws, [type |-> "file_received", filename |-> filename])>>
                     \o SendEach(others, [type |-> "file_notification",
                                          filename |-> filename,
                                          from |-> deviceName[ws]]),
         !.fileMetadata[ws] = null]

\* The no-metadata branch sending its error to every open client.
noMetadata_broadcastsError(ws, bytes) ==
  [Base EXCEPT !.effects =
     SendEach(OpenClients(clients, readyState),
              ErrorFrame("Received binary data without metadata"))]

\* Binary data without metadata (lines 464-467)
noMetadata(ws, bytes) ==
  [Base EXCEPT !.effects =
     <<Send(ws, ErrorFrame("Received binary data without metadata"))>>]

\* The else branch of line 226 (lines 395-468)
binaryData(ws, bytes) ==
  LET r == IF pendingTransfers[ws] # null THEN pendingTransfer(ws, bytes)
           ELSE IF fileMetadata[ws] # null THEN simpleTransfer(ws, bytes)
           ELSE noMetadata(ws, bytes)
  IN  [r EXCEPT !.announced[ws] = <<>>, !.resolved[ws] = 0]

\* The body of the "message" callback (lines 223-473)
handle(ws, message) ==
  IF IsStructured(message)
  THEN IF message.parse = SyntaxError
       THEN Catch(ws, Base)   \* JSON.parse throws
       ELSE dispatch(ws, message.parse)
  ELSE binaryData(ws, message.bytes)

\* Whether handling the frame allocates a device id.
Allocates(message) ==
  /\ IsStructured(message)
  /\ message.parse # SyntaxError
  /\ message.parse.type = "register_device"

\* Whether handling the frame records a pending transfer.
Announces(message) ==
  /\ IsStructured(message)
  /\ message.parse # SyntaxError
  /\ message.parse.type = "file_metadata"
  /\ message.parse.targetId # undefined

\* ws.on("message", function incoming(message) ...): frames arrive on open
\* connections only.
incoming(ws, message) ==
  /\ readyState[ws] = "OPEN"
  /\ Allocates(message) => clientIdCounter <= MaxIds
  /\ Announces(message) =>
       Cardinality({c \in Conns \ {ws} : pendingTransfers[c] # null}) < MaxPending
  /\ LET r == handle(ws, message)
     IN  /\ deviceName' = r.deviceName
         /\ deviceInfo' = r.deviceInfo
         /\ fileMetadata' = r.fileMetadata
         /\ clientIdCounter' = r.clientIdCounter
         /\ pendingTransfers' = r.pendingTransfers
         /\ uploads' = r.uploads
         /\ issued' = r.issued
         /\ announced' = r.announced
         /\ resolved' = r.resolved
         /\ effects' = r.effects
  /\ event' = [kind |-> "message", ws |-> ws, message |-> message]
  /\ UNCHANGED <<clients, readyState>>

\* The callbacks the event loop may run next, for frames drawn from M.
Step(M) ==
  \/ \E ws \in Conns : connection(ws)
  \/ \E ws \in Conns : closing(ws)
  \/ \E ws \in Conns : close(ws)
  \/ \E ws \in Conns, message \in M : incoming(ws, message)

NextRegistry == Step(RegistryMessages)
NextTransfer == Step(TransferMessages)
NextSimple == Step(SimpleMessages)
NextRelay == Step(RelayMessages)

NextListing == Step(ListingMessages)
NextDecode == Step(DecodeMessages)
NextDefault == Step(DefaultMessages)
NextLastWrite == Step(LastWriteMessages)
NextFiles == Step(FilesMessages)
NextGate == Step(GateMessages)
\* Registration, listing and lookup by device id.
SpecRegistry == Init /\ [][NextRegistry]_vars
\* Registration and the metadata-then-binary transfers.
SpecTransfer == Init /\ [][NextTransfer]_vars
\* Registration and the transfers without a target.
SpecSimple == Init /\ [][NextSimple]_vars
\* Registration and the relays addressed to a device id.
SpecRelay == Init /\ [][NextRelay]_vars

\* Registration, and the listing and access responses relayed by device id.
SpecListing == Init /\ [][NextListing]_vars

\* Registration, announcements, and structured frames that fail to decode.
SpecDecode == Init /\ [][NextDecode]_vars

\* Registration and the frames that fall through to the default handler.
SpecDefault == Init /\ [][NextDefault]_vars

\* Registration and transfers announced more than once before their bytes.
SpecLastWrite == Init /\ [][NextLastWrite]_vars

\* Registration and the initial file listings.
SpecFiles == Init /\ [][NextFiles]_vars

\* Registration and every relay, from registered and unregistered senders.
SpecGate == Init /\ [][NextGate]_vars

\* ---------------------------------------------------------- observations
Range(seq) == {seq[i] : i \in 1..Len(seq)}

\* The type of a frame the broker sent; a forwarded Buffer has none.
FrameType(frame) == IF "type" \in DOMAIN frame THEN frame.type ELSE "binary"

\* The frames a handler sent to connection c, in order.
FramesTo(eff, c) ==
  LET sends == SelectSeq(eff, LAMBDA e : e.op = "send" /\ e.to = c)
  IN  [i \in 1..Len(sends) |-> sends[i].frame]

\* How many frames of a type a handler sent to connection c.
CountTo(eff, c, type) ==
  Cardinality({i \in 1..Len(FramesTo(eff, c)) : FrameType(FramesTo(eff, c)[i]) = type})

\* The files a handler wrote.
Writes(eff) == SelectSeq(eff, LAMBDA e : e.op = "write")

\* The callback was the handling of a structured frame of the given type.
Handled(ev, type) ==
  /\ ev.kind = "message"
  /\ IsStructured(ev.message)
  /\ ev.message.parse # SyntaxError
  /\ ev.message.parse.type = type

\* The callback was the handling of file content.
HandledBinary(ev) == ev.kind = "message" /\ ~IsStructured(ev.message)

\* The n of "client_" + n.
IdNum(id) == CHOOSE n \in 0..(MaxIds + 1) : ClientId(n) = id

RegisteredClients == {c \in Range(clients) : deviceInfo[c] # null}
DeviceEntry(c) == [id |-> deviceInfo[c].id, name |-> deviceInfo[c].deviceName]

\* The ids that were allocated and that no connection object holds any
\* more: the ids a re-registration replaced.
ReplacedIds ==
  {id \in Range(issued) :
     \A c \in Conns : deviceInfo[c] = null \/ deviceInfo[c].id # id}

\* ------------------------------------------------------------------- C1
\* C1: every register_device assigns "client_" + n with n strictly greater
\* than the n of every id assigned before, so the ids allocated are pairwise
\* distinct and no two connection objects, open or closed, hold the same id.
C1_IdsStrictlyIncrease ==
  /\ \A i \in 1..Len(issued) : \E n \in 1..MaxIds : issued[i] = ClientId(n)
  /\ \A i, j \in 1..Len(issued) :
       i < j => IdNum(issued[i]) < IdNum(issued[j])
  /\ \A c \in Conns : deviceInfo[c] # null => deviceInfo[c].id \in Range(issued)
  /\ \A c, d \in Conns :
       (c # d /\ deviceInfo[c] # null /\ deviceInfo[d] # null)
         => deviceInfo[c].id # deviceInfo[d].id
  /\ Handled(event, "register_device") =>
       deviceInfo[event.ws].id = issued[Len(issued)]

\* Three ids were allocated: one is held by a closed connection, a later one
\* by an open connection, and one was replaced by a re-registration.
C1_Witness ==
  /\ Len(issued) >= 3
  /\ ReplacedIds # {}
  /\ \E c, d \in Conns :
       /\ readyState[c] = "CLOSED" /\ deviceInfo[c] # null
       /\ readyState[d] = "OPEN" /\ deviceInfo[d] # null
       /\ IdNum(deviceInfo[c].id) < IdNum(deviceInfo[d].id)

\* ------------------------------------------------------------------- C2
\* C2: register_device on a registered connection does not fail and gives
\* the connection a fresh id; the device list then holds the connection once,
\* under the new id, the old id resolves to no connection, and a relay
\* addressed to a replaced id is answered as target-not-found.
C2_ReRegistrationReplacesDevice ==
  [][ /\ (Handled(event', "register_device") /\ deviceInfo[event'.ws] # null) =>
           LET ws == event'.ws
               old == deviceInfo[ws].id
               new == deviceInfo'[ws].id
               list == getClientList(clients', deviceInfo')
           IN  /\ new # old
               /\ new \notin Range(issued)
               /\ Cardinality({i \in 1..Len(list) : list[i].id = new}) = 1
               /\ \A i \in 1..Len(list) : list[i].id # old
               /\ find(clients', deviceInfo', new) = ws
               /\ find(clients', deviceInfo', old) = 0
               /\ \A c \in Conns : CountTo(effects', c, "error") = 0
               /\ CountTo(effects', ws, "connected_devices") = 1
      /\ (Handled(event', "list_files")
            /\ event'.message.parse.targetId \in ReplacedIds) =>
           effects' = <<Send(event'.ws, TargetNotFound)>>
    ]_vars

\* A list_files addressed to an id that a re-registration replaced, while
\* the connection that held it is still registered, was just answered.
C2_Witness ==
  /\ Handled(event, "list_files")
  /\ event.message.parse.targetId \in ReplacedIds
  /\ effects = <<Send(event.ws, TargetNotFound)>>
  /\ \E c \in RegisteredClients :
       IdNum(deviceInfo[c].id) > IdNum(event.message.parse.targetId)

\* ------------------------------------------------------------------- C3
\* C3: every connected_devices frame the broker sends lists exactly the
\* {id, name} of the connections that are in the client set and registered
\* when the list is computed, each once: no unregistered connection, no
\* disconnected connection, and every registered live connection.
C3_ListIsExactlyRegistered ==
  \A i \in 1..Len(effects) :
    (effects[i].op = "send"
       /\ FrameType(effects[i].frame) = "connected_devices") =>
      LET devices == effects[i].frame.devices
      IN  /\ Range(devices) = {DeviceEntry(c) : c \in RegisteredClients}
          /\ Len(devices) = Cardinality(RegisteredClients)

\* A registered connection has just disconnected; the broadcast went to a
\* client set holding a registered and an unregistered connection.
C3_Witness ==
  /\ event.kind = "close"
  /\ deviceInfo[event.ws] # null
  /\ Len(effects) >= 2
  /\ RegisteredClients # {}
  /\ Range(clients) \ RegisteredClients # {}

\* ------------------------------------------------------------------- C4
\* C4: connect, register_device and disconnect each send exactly one
\* connected_devices frame to every connection that is in the client set and
\* open, and none to any other connection; the broadcast of a disconnect is
\* computed after the removal, so it does not list the leaving device and
\* the leaving connection gets nothing; get_connected_devices answers the
\* requester only.
C4_OneBroadcastPerMembershipChange ==
  /\ (event.kind \in {"connection", "close"} \/ Handled(event, "register_device")) =>
       \A c \in Conns :
         CountTo(effects, c, "connected_devices") =
           IF c \in Range(clients) /\ readyState[c] = "OPEN" THEN 1 ELSE 0
  /\ event.kind \in {"connection", "close"} =>
       \A i \in 1..Len(effects) :
         effects[i].op = "send" /\ FrameType(effects[i].frame) = "connected_devices"
  /\ event.kind = "close" =>
       /\ FramesTo(effects, event.ws) = <<>>
       /\ deviceInfo[event.ws] # null =>
            \A i \in 1..Len(effects) : \A k \in 1..Len(effects[i].frame.devices) :
              effects[i].frame.devices[k].id # deviceInfo[event.ws].id
  /\ Handled(event, "get_connected_devices") =>
       /\ Len(effects) = 1
       /\ CountTo(effects, event.ws, "connected_devices") = 1

\* A registered device has just disconnected while the client set held an
\* open connection and one the transport was already closing.
C4_Witness ==
  /\ event.kind = "close"
  /\ deviceInfo[event.ws] # null
  /\ \E c, d \in Range(clients) :
       /\ readyState[c] = "OPEN" /\ readyState[d] = "CLOSING"
       /\ CountTo(effects, c, "connected_devices") = 1
       /\ CountTo(effects, d, "connected_devices") = 0

\* ------------------------------------------------------------------- C5
\* C5: a targeted file_metadata is answered with ready_for_file; when the
\* binary frame that follows is handled and the recorded targetId resolves
\* to a registered connection B, the payload is written under the announced
\* filename before anything is sent, B is sent file_metadata with the
\* announced filename, size and contentType and then the payload, the sender
\* is sent file_transferred{stored: true, forwarded: true}, and no other
\* connection is sent anything.
C5_TargetedTransferDelivers ==
  [][ /\ (Handled(event', "file_metadata")
            /\ event'.message.parse.targetId # undefined) =>
           effects' = <<Send(event'.ws, [type |-> "ready_for_file"])>>
      /\ (HandledBinary(event')
            /\ pendingTransfers[event'.ws] # null
            /\ find(clients, deviceInfo, pendingTransfers[event'.ws].targetId) # 0) =>
           LET ws == event'.ws
               bytes == event'.message.bytes
               metadata == pendingTransfers[ws].metadata
               B == find(clients, deviceInfo, pendingTransfers[ws].targetId)
               toB == FramesTo(effects', B)
               toSender == FramesTo(effects', ws)
           IN  /\ uploads'[metadata.filename] = bytes
               /\ Len(effects') > 0
               /\ effects'[1] = Write(metadata.filename, bytes)
               /\ Len(toB) >= 2
               /\ FrameType(toB[1]) = "file_metadata"
               /\ toB[1].filename = metadata.filename
               /\ toB[1].size = metadata.size
               /\ toB[1].contentType = metadata.contentType
               /\ toB[2] = Binary(bytes)
               /\ CountTo(effects', ws, "file_transferred") = 1
               /\ LET ack == toSender[Len(toSender)]
                  IN  /\ FrameType(ack) = "file_transferred"
                      /\ ack.filename = metadata.filename
                      /\ ack.stored /\ ack.forwarded
               /\ Len(toB) = IF B = ws THEN 3 ELSE 2
               /\ Len(toSender) = IF B = ws THEN 3 ELSE 1
               /\ \A c \in Conns \ {ws, B} : FramesTo(effects', c) = <<>>
    ]_vars

\* ------------------------------------------------------------------- C6
\* C6: when a connection with a pending transfer sends its binary frame and
\* the recorded targetId resolves to no registered connection, the payload is
\* still written under the announced filename, the sender is sent
\* file_transferred{stored: true, forwarded: false, error}, and no other
\* connection is sent anything.
C6_OfflineTargetStillStored ==
  [][ (HandledBinary(event')
         /\ pendingTransfers[event'.ws] # null
         /\ find(clients, deviceInfo, pendingTransfers[event'.ws].targetId) = 0) =>
        LET ws == event'.ws
            bytes == event'.message.bytes
            metadata == pendingTransfers[ws].metadata
            toSender == FramesTo(effects', ws)
        IN  /\ uploads'[metadata.filename] = bytes
            /\ Writes(effects') = <<Write(metadata.filename, bytes)>>
            /\ Len(toSender) = 1
            /\ FrameType(toSender[1]) = "file_transferred"
            /\ toSender[1].filename = metadata.filename
            /\ toSender[1].stored /\ ~toSender[1].forwarded
            /\ "error" \in DOMAIN toSender[1]
            /\ \A c \in Conns \ {ws} : FramesTo(effects', c) = <<>>
    ]_vars

\* An unregistered sender's payload has just been stored and reported as not
\* forwarded, while another connection is registered and open.
C6_Witness ==
  /\ HandledBinary(event)
  /\ deviceInfo[event.ws] = null
  /\ CountTo(effects, event.ws, "file_transferred") = 1
  /\ ~FramesTo(effects, event.ws)[1].forwarded
  /\ uploads["a.txt"] = event.message.bytes
  /\ pendingTransfers[event.ws] = null
  /\ \E c \in RegisteredClients : c # event.ws /\ readyState[c] = "OPEN"

\* ------------------------------------------------------------------- C7
\* C7: once the broker has handled a binary frame from a connection that had
\* a pending transfer, that connection has no pending transfer, whatever the
\* sender's registration state and whether or not the payload was forwarded.
C7_PendingConsumedByBinary ==
  [][ (HandledBinary(event') /\ pendingTransfers[event'.ws] # null) =>
        pendingTransfers'[event'.ws] = null
    ]_vars

\* ------------------------------------------------------------------- C8
\* C8: a file_metadata frame without targetId stores {filename, size,
\* contentType} on the sending connection; the next binary frame of that
\* connection is written under that filename, the sender is sent
\* file_received and no file_notification, every other registered connection
\* is sent exactly one file_notification, and the stored metadata is cleared.
C8_SimpleTransfer ==
  [][ /\ (Handled(event', "file_metadata")
            /\ event'.message.parse.targetId = undefined) =>
           LET ws == event'.ws
               data == event'.message.parse
           IN  /\ fileMetadata'[ws] # null
               /\ fileMetadata'[ws].filename = data.filename
               /\ fileMetadata'[ws].size = data.size
               /\ fileMetadata'[ws].contentType = data.contentType
      /\ (HandledBinary(event')
            /\ pendingTransfers[event'.ws] = null
            /\ fileMetadata[event'.ws] # null) =>
           LET ws == event'.ws
           IN  /\ uploads'[fileMetadata[ws].filename] = event'.message.bytes
               /\ CountTo(effects', ws, "file_received") = 1
               /\ CountTo(effects', ws, "file_notification") = 0
               /\ \A c \in RegisteredClients \ {ws} :
                    CountTo(effects', c, "file_notification") = 1
               /\ fileMetadata'[ws] = null
    ]_vars

\* ------------------------------------------------------------------- C9
\* C9: a binary frame from a connection that has neither a pending transfer
\* nor stored simple-transfer metadata sends exactly one error frame, to the
\* sender, and does nothing else: nothing is written, and the client set, the
\* devices, the pending transfers and the stored files stay as they were.
C9_BinaryWithoutMetadataIsAnError ==
  [][ (HandledBinary(event')
         /\ pendingTransfers[event'.ws] = null
         /\ fileMetadata[event'.ws] = null) =>
        /\ Len(effects') = 1
        /\ effects'[1].op = "send"
        /\ effects'[1].to = event'.ws
        /\ FrameType(effects'[1].frame) = "error"
        /\ UNCHANGED <<clients, readyState, deviceName, deviceInfo, fileMetadata,
                       clientIdCounter, pendingTransfers, uploads>>
    ]_vars

\* A connection without a pending transfer has just been answered with an
\* error for its binary frame, while another open connection holds a pending
\* transfer and a file is already stored.
C9_Witness ==
  /\ HandledBinary(event)
  /\ pendingTransfers[event.ws] = null
  /\ CountTo(effects, event.ws, "error") = 1
  /\ Writes(effects) = <<>>
  /\ uploads["a.txt"] # undefined
  /\ \E c \in Range(clients) :
       c # event.ws /\ readyState[c] = "OPEN" /\ pendingTransfers[c] # null

\* ------------------------------------------------------------------ C10
\* C10: request_file with a filename and a targetId that resolves to no
\* registered connection sends the requester exactly one error frame and
\* sends nothing to any other connection.
C10_RequestFileUnknownTargetIsAnError ==
  [][ (Handled(event', "request_file")
         /\ event'.message.parse.filename # undefined
         /\ event'.message.parse.targetId # undefined
         /\ find(clients, deviceInfo, event'.message.parse.targetId) = 0) =>
        /\ Len(FramesTo(effects', event'.ws)) = 1
        /\ CountTo(effects', event'.ws, "error") = 1
        /\ \A c \in Conns \ {event'.ws} : FramesTo(effects', c) = <<>>
    ]_vars

\* The state of the broker: the client set, the devices, the pending
\* transfers and the stored files.
BrokerUnchanged ==
  UNCHANGED <<clients, readyState, deviceName, deviceInfo, fileMetadata,
              clientIdCounter, pendingTransfers, uploads>>

\* ------------------------------------------------------------------ C11
\* C11: when a registered connection sends list_files or request_file_access
\* with a targetId that resolves to no registered connection, the sender is
\* sent exactly one frame, an error; no other connection is sent anything,
\* nothing is written, and the client set, the devices, the pending transfers
\* and the stored files stay as they were.
C11_UnknownTargetIsAnError ==
  [][ ((Handled(event', "list_files") \/ Handled(event', "request_file_access"))
         /\ event'.message.parse.targetId # undefined
         /\ deviceInfo[event'.ws] # null
         /\ find(clients, deviceInfo, event'.message.parse.targetId) = 0) =>
        /\ Len(FramesTo(effects', event'.ws)) = 1
        /\ CountTo(effects', event'.ws, "error") = 1
        /\ \A c \in Conns \ {event'.ws} : FramesTo(effects', c) = <<>>
        /\ Writes(effects') = <<>>
        /\ BrokerUnchanged
    ]_vars

\* A registered connection asked for access to a device whose connection has
\* closed and was answered with the error, while another registered
\* connection is open.
C11_Witness ==
  /\ Handled(event, "request_file_access")
  /\ deviceInfo[event.ws] # null
  /\ \E c \in Conns :
       /\ readyState[c] = "CLOSED" /\ deviceInfo[c] # null
       /\ deviceInfo[c].id = event.message.parse.targetId
  /\ effects = <<Send(event.ws, TargetNotFound)>>
  /\ \E d \in RegisteredClients : d # event.ws /\ readyState[d] = "OPEN"

\* ------------------------------------------------------------------ C12
\* C12: when a registered A sends list_files{targetId, path p} and the
\* targetId resolves to B, B and only B is sent request_file_list with
\* requesterId = A's id and path p; when a registered B sends
\* file_list_response{requesterId, path p, files} and the requesterId
\* resolves to A, A and only A is sent file_list_response with sourceId =
\* B's id, the same files and the same path.  Neither step changes the
\* broker's state, and the second does not depend on the first having
\* happened.
C12_DirectoryRelayRoundTrip ==
  [][ /\ (Handled(event', "list_files")
            /\ event'.message.parse.targetId # undefined
            /\ event'.message.parse.path # undefined
            /\ deviceInfo[event'.ws] # null
            /\ find(clients, deviceInfo, event'.message.parse.targetId) # 0) =>
           LET A == event'.ws
               data == event'.message.parse
               B == find(clients, deviceInfo, data.targetId)
               toB == FramesTo(effects', B)
           IN  /\ Len(toB) = 1
               /\ FrameType(toB[1]) = "request_file_list"
               /\ toB[1].requesterId = deviceInfo[A].id
               /\ toB[1].path = data.path
               /\ \A c \in Conns \ {B} : FramesTo(effects', c) = <<>>
               /\ BrokerUnchanged
      /\ (Handled(event', "file_list_response")
            /\ event'.message.parse.requesterId # undefined
            /\ event'.message.parse.path # undefined
            /\ event'.message.parse.files # undefined
            /\ deviceInfo[event'.ws] # null
            /\ find(clients, deviceInfo, event'.message.parse.requesterId) # 0) =>
           LET B == event'.ws
               data == event'.message.parse
               A == find(clients, deviceInfo, data.requesterId)
               toA == FramesTo(effects', A)
           IN  /\ Len(toA) = 1
               /\ FrameType(toA[1]) = "file_list_response"
               /\ toA[1].sourceId = deviceInfo[B].id
               /\ toA[1].files = data.files
               /\ toA[1].sourcePath = data.path
               /\ \A c \in Conns \ {A} : FramesTo(effects', c) = <<>>
               /\ BrokerUnchanged
    ]_vars

\* B's listing of "/x" has just been forwarded to A, a different registered
\* connection, under B's id, while a third connection is open.
C12_Witness ==
  /\ Handled(event, "file_list_response")
  /\ event.message.parse.path = "/x"
  /\ event.message.parse.files # undefined
  /\ deviceInfo[event.ws] # null
  /\ \E A \in RegisteredClients :
       /\ A # event.ws
       /\ deviceInfo[A].id = event.message.parse.requesterId
       /\ Len(FramesTo(effects, A)) = 1
       /\ FramesTo(effects, A)[1].sourceId = deviceInfo[event.ws].id
       /\ FramesTo(effects, A)[1].sourcePath = "/x"
  /\ \E c \in Range(clients) :
       c # event.ws /\ readyState[c] = "OPEN" /\ FramesTo(effects, c) = <<>>

\* ------------------------------------------------------------------ C13
\* C13: a disconnect discards the pending transfer of the leaving connection:
\* every connection that has an entry in pendingTransfers is in the client
\* set; and the disconnect sends nothing but the connected_devices
\* broadcast, so no error and no transfer frame reaches anyone.
C13_PendingDiscardedOnDisconnect ==
  /\ \A c \in Conns : pendingTransfers[c] # null => c \in Range(clients)
  /\ event.kind = "close" =>
       \A i \in 1..Len(effects) :
         /\ effects[i].op = "send"
         /\ FrameType(effects[i].frame) = "connected_devices"

\* The callback was the handling of a structured frame that failed to decode.
DecodeFailed(ev) ==
  /\ ev.kind = "message"
  /\ IsStructured(ev.message)
  /\ ev.message.parse = SyntaxError

\* ------------------------------------------------------------------ C14
\* C14: a structured frame whose payload fails to decode sends exactly one
\* frame, the generic error, to the sender and nothing to anyone else; the
\* sender stays in the client set, open, with its device and its pending
\* transfer as they were; and afterwards the broker still handles a frame
\* from every open connection.
C14_DecodeFailureIsContained ==
  /\ [][ DecodeFailed(event') =>
            /\ effects' = <<Send(event'.ws, ErrorFrame("Failed to process message"))>>
            /\ BrokerUnchanged
       ]_vars
  /\ [](DecodeFailed(event) =>
          /\ event.ws \in Range(clients)
          /\ \A c \in Conns :
               readyState[c] = "OPEN" =>
                 ENABLED incoming(c, TextFrame([Blank EXCEPT !.type = "ping"])))

\* A registered connection holding a pending transfer sent a Buffer that
\* starts with '{' and does not decode; it was answered with the error while
\* another registered connection is open.
C14_Witness ==
  /\ DecodeFailed(event)
  /\ ~event.message.isString
  /\ deviceInfo[event.ws] # null
  /\ pendingTransfers[event.ws] # null
  /\ CountTo(effects, event.ws, "error") = 1
  /\ \E c \in RegisteredClients : c # event.ws /\ readyState[c] = "OPEN"

\* The callback was the handling of a structured frame of an unrecognized
\* type, or of a relay type without its targetId.
Unrecognized(ev) ==
  \/ Handled(ev, "chat")
  \/ /\ (Handled(ev, "list_files") \/ Handled(ev, "request_file_access"))
     /\ ev.message.parse.targetId = undefined

\* ------------------------------------------------------------------ C15
\* C15: a structured frame of an unrecognized type, or of a relay type
\* without its targetId, sends the sender exactly one frame, the
\* acknowledgment; every other registered open connection is sent the payload
\* exactly once and no unregistered connection is sent anything; nothing is
\* written and the broker's state stays as it was.
C15_DefaultHandlerReachesRegisteredOnly ==
  [][ Unrecognized(event') =>
        /\ Len(FramesTo(effects', event'.ws)) = 1
        /\ CountTo(effects', event'.ws, "message") = 1
        /\ \A c \in RegisteredClients \ {event'.ws} :
             readyState[c] = "OPEN" =>
               /\ Len(FramesTo(effects', c)) = 1
               /\ CountTo(effects', c, "message") = 1
        /\ \A c \in Conns \ {event'.ws} :
             deviceInfo[c] = null => FramesTo(effects', c) = <<>>
        /\ Writes(effects') = <<>>
        /\ BrokerUnchanged
    ]_vars

\* ------------------------------------------------------------------ C16
\* C16: request_file with a targetId and a filename, from a registered
\* sender and to a registered target, sends exactly one frame: request_file
\* with the filename and the requester's device id, to the target; it sends
\* nothing to anyone else, touches no stored file, and leaves the devices
\* and the pending transfers as they were.
C16_RequestFileIsForwardedOnly ==
  [][ (Handled(event', "request_file")
         /\ event'.message.parse.targetId # undefined
         /\ event'.message.parse.filename # undefined
         /\ deviceInfo[event'.ws] # null
         /\ find(clients, deviceInfo, event'.message.parse.targetId) # 0) =>
        LET ws == event'.ws
            data == event'.message.parse
            target == find(clients, deviceInfo, data.targetId)
        IN  /\ Len(effects') = 1
            /\ effects'[1].op = "send"
            /\ effects'[1].to = target
            /\ FrameType(effects'[1].frame) = "request_file"
            /\ effects'[1].frame.filename = data.filename
            /\ effects'[1].frame.fromId = deviceInfo[ws].id
            /\ BrokerUnchanged
    ]_vars

\* A registered connection's request_file was just passed to another
\* registered connection, while a third connection is open and was sent
\* nothing.
C16_Witness ==
  /\ Handled(event, "request_file")
  /\ deviceInfo[event.ws] # null
  /\ Len(effects) = 1
  /\ effects[1].to # event.ws
  /\ FrameType(effects[1].frame) = "request_file"
  /\ effects[1].frame.filename = "b.txt"
  /\ effects[1].frame.fromId = deviceInfo[event.ws].id
  /\ \E c \in Range(clients) :
       c \notin {event.ws, effects[1].to} /\ readyState[c] = "OPEN"

\* ------------------------------------------------------------------ C17
\* C17: every targeted file_metadata is answered with ready_for_file and
\* leaves the sender with one pending transfer, the one just announced; when
\* a connection announced {T1, f1} and then {T2, f2} and now sends its binary
\* frame, the payload is written under f2 and under no other name, T2 (when
\* it resolves) is sent the file_metadata of f2 followed by the payload, and
\* no connection other than T2 and the sender is sent anything: T1 gets
\* nothing and nothing is stored under f1.
C17_LastAnnouncementWins ==
  [][ /\ (Handled(event', "file_metadata")
            /\ event'.message.parse.targetId # undefined) =>
           /\ effects' = <<Send(event'.ws, [type |-> "ready_for_file"])>>
           /\ pendingTransfers'[event'.ws].targetId = event'.message.parse.targetId
           /\ pendingTransfers'[event'.ws].metadata = event'.message.parse
      /\ (HandledBinary(event') /\ Len(announced[event'.ws]) = 2) =>
           LET ws == event'.ws
               bytes == event'.message.bytes
               first == announced[ws][1]
               second == announced[ws][2]
               T2 == find(clients, deviceInfo, second.targetId)
           IN  /\ Writes(effects') = <<Write(second.filename, bytes)>>
               /\ uploads'[second.filename] = bytes
               /\ \A f \in Filenames \ {second.filename} : uploads'[f] = uploads[f]
               /\ T2 # 0 =>
                    /\ Len(FramesTo(effects', T2)) >= 2
                    /\ FrameType(FramesTo(effects', T2)[1]) = "file_metadata"
                    /\ FramesTo(effects', T2)[1].filename = second.filename
                    /\ FramesTo(effects', T2)[2] = Binary(bytes)
               /\ \A c \in Conns \ {ws, T2} : FramesTo(effects', c) = <<>>
    ]_vars

\* The callback was the handling of a file_list_response or of a
\* file_access_response that names a requester.
HandledResponse(ev) ==
  /\ (Handled(ev, "file_list_response") \/ Handled(ev, "file_access_response"))
  /\ ev.message.parse.requesterId # undefined

\* ------------------------------------------------------------------ C18
\* C18: a file_list_response or file_access_response whose requesterId
\* resolves to no registered connection sends nothing to anyone, the
\* responder included, and changes nothing; when the requesterId resolves,
\* the response of a registered device is sent once, to the requester only,
\* as a frame of the same type carrying the responding device's id.
C18_ResponseToVanishedRequesterIsDropped ==
  [][ /\ (HandledResponse(event')
            /\ find(clients, deviceInfo, event'.message.parse.requesterId) = 0) =>
           /\ effects' = <<>>
           /\ BrokerUnchanged
      /\ (HandledResponse(event')
            /\ deviceInfo[event'.ws] # null
            /\ find(clients, deviceInfo, event'.message.parse.requesterId) # 0) =>
           LET ws == event'.ws
               data == event'.message.parse
               requester == find(clients, deviceInfo, data.requesterId)
           IN  /\ Len(effects') = 1
               /\ effects'[1].op = "send"
               /\ effects'[1].to = requester
               /\ FrameType(effects'[1].frame) = data.type
               /\ IF data.type = "file_list_response"
                  THEN effects'[1].frame.sourceId = deviceInfo[ws].id
                  ELSE effects'[1].frame.targetId = deviceInfo[ws].id
               /\ BrokerUnchanged
    ]_vars

\* A registered device answered an access request of a device whose
\* connection has closed: nothing was sent, while another registered
\* connection is open.
C18_Witness ==
  /\ Handled(event, "file_access_response")
  /\ deviceInfo[event.ws] # null
  /\ \E c \in Conns :
       /\ readyState[c] = "CLOSED" /\ deviceInfo[c] # null
       /\ deviceInfo[c].id = event.message.parse.requesterId
  /\ effects = <<>>
  /\ \E d \in RegisteredClients : d # event.ws /\ readyState[d] = "OPEN"

\* ------------------------------------------------------------------ C19
\* C19 (for a `files` that is a list of file entries, or absent):
\* register_device sends request_initial_file_list once, to the
\* registering connection and to nobody else, as the last frame of the
\* handler, after every connected_devices frame of that registration; an
\* initial_file_list_response from a registered connection is sent, as
\* device_files_update carrying the sender's device id and the files, once
\* to every other registered open connection, and neither to the sender nor
\* to an unregistered connection.
C19_InitialFileListExchange ==
  [][ /\ Handled(event', "register_device") =>
           LET ws == event'.ws
               n == Len(effects')
           IN  /\ n >= 2
               /\ effects'[n] = Send(ws, [type |-> "request_initial_file_list"])
               /\ \A i \in 1..(n - 1) :
                    FrameType(effects'[i].frame) = "connected_devices"
               /\ CountTo(effects', ws, "connected_devices") = 1
      /\ (Handled(event', "initial_file_list_response")
            /\ event'.message.parse.files # MalformedFiles
            /\ deviceInfo[event'.ws] # null) =>
           LET ws == event'.ws
               data == event'.message.parse
           IN  /\ \A c \in Conns :
                    IF /\ c # ws /\ c \in Range(clients)
                       /\ deviceInfo[c] # null /\ readyState[c] = "OPEN"
                    THEN /\ Len(FramesTo(effects', c)) = 1
                         /\ FrameType(FramesTo(effects', c)[1]) = "device_files_update"
                         /\ FramesTo(effects', c)[1].deviceId = deviceInfo[ws].id
                         /\ data.files # undefined =>
                              FramesTo(effects', c)[1].files = data.files
                    ELSE FramesTo(effects', c) = <<>>
               /\ BrokerUnchanged
    ]_vars

\* A registered connection's file listing was just sent to another
\* registered connection and not to a third, open and unregistered.
C19_Witness ==
  /\ Handled(event, "initial_file_list_response")
  /\ event.message.parse.files = "files"
  /\ deviceInfo[event.ws] # null
  /\ Len(effects) = 1
  /\ effects[1].to \in RegisteredClients \ {event.ws}
  /\ effects[1].frame.deviceId = deviceInfo[event.ws].id
  /\ \E c \in Range(clients) :
       c # event.ws /\ readyState[c] = "OPEN" /\ deviceInfo[c] = null

\* The device id a handled frame is addressed to: the targetId or
\* requesterId of a relay frame, the recorded targetId of the sender's
\* pending transfer for file content, undefined for any other callback.
\* `pending` is the pending transfers before the callback.
Addressee(ev, pending) ==
  IF HandledBinary(ev)
    THEN IF pending[ev.ws] # null THEN pending[ev.ws].targetId ELSE undefined
  ELSE IF Handled(ev, "request_file")
    THEN IF ev.message.parse.filename # undefined
         THEN ev.message.parse.targetId ELSE undefined
  ELSE IF Handled(ev, "list_files") \/ Handled(ev, "request_file_access")
    THEN ev.message.parse.targetId
  ELSE IF Handled(ev, "file_list_response") \/ Handled(ev, "file_access_response")
    THEN ev.message.parse.requesterId
  ELSE undefined

\* ------------------------------------------------------------------ C20
\* C20: when a connection that has not registered sends request_file,
\* list_files, request_file_access, file_list_response or
\* file_access_response addressed to the id of a registered connection, or
\* the binary frame of a pending transfer whose target is a registered
\* connection, the addressed connection is sent nothing, nor is any third
\* connection, the sender is sent exactly the generic error, and the client
\* set and the devices stay as they were.
C20_UnregisteredCannotRelay ==
  [][ (/\ event'.kind = "message"
       /\ deviceInfo[event'.ws] = null
       /\ Addressee(event', pendingTransfers) # undefined
       /\ find(clients, deviceInfo, Addressee(event', pendingTransfers)) # 0) =>
        LET ws == event'.ws
        IN  /\ \A c \in Conns \ {ws} : FramesTo(effects', c) = <<>>
            /\ FramesTo(effects', ws) = <<ErrorFrame("Failed to process message")>>
            /\ UNCHANGED <<clients, readyState, deviceName, deviceInfo, clientIdCounter>>
    ]_vars

\* An unregistered connection sent the bytes of a transfer addressed to a
\* registered, open connection: the bytes were stored, the target was sent
\* nothing and the sender was sent the generic error.
C20_Witness ==
  /\ HandledBinary(event)
  /\ deviceInfo[event.ws] = null
  /\ pendingTransfers[event.ws] # null
  /\ Writes(effects) # <<>>
  /\ FramesTo(effects, event.ws) = <<ErrorFrame("Failed to process message")>>
  /\ \E T \in RegisteredClients :
       /\ deviceInfo[T].id = pendingTransfers[event.ws].targetId
       /\ readyState[T] = "OPEN"
       /\ FramesTo(effects, T) = <<>>

\* ------------------------------------------------------------------ C21
\* C21: the target of a targeted transfer is looked up when the binary frame
\* is handled, not when file_metadata is handled, whatever other connections
\* did in between.  file_metadata is answered with ready_for_file whether or
\* not its targetId resolves.  When the targetId resolved to nothing at the
\* announcement and resolves when the bytes arrive, the payload is forwarded:
\* the target is sent file_metadata and then the payload, the sender
\* file_transferred{forwarded: true}.  When it resolved at the announcement
\* and no longer does (the target disconnected, or re-registered under a new
\* id), the sender is sent file_transferred{forwarded: false} and the former
\* target is sent no file_metadata and no payload.
C21_TargetResolvedWhenBytesArrive ==
  [][ /\ (Handled(event', "file_metadata")
            /\ event'.message.parse.targetId # undefined) =>
           effects' = <<Send(event'.ws, [type |-> "ready_for_file"])>>
      /\ (HandledBinary(event') /\ Len(announced[event'.ws]) >= 1) =>
           LET ws == event'.ws
               bytes == event'.message.bytes
               was == resolved[ws]
               now == find(clients, deviceInfo, pendingTransfers[ws].targetId)
               toSender == FramesTo(effects', ws)
               ack == toSender[Len(toSender)]
           IN  /\ (was = 0 /\ now # 0) =>
                    /\ Len(FramesTo(effects', now)) >= 2
                    /\ FrameType(FramesTo(effects', now)[1]) = "file_metadata"
                    /\ FramesTo(effects', now)[2] = Binary(bytes)
                    /\ FrameType(ack) = "file_transferred"
                    /\ ack.forwarded
               /\ (was # 0 /\ now # was) =>
                    /\ FrameType(ack) = "file_transferred"
                    /\ ~ack.forwarded
                    /\ was # ws => FramesTo(effects', was) = <<>>
                    /\ CountTo(effects', was, "file_metadata") = 0
                    /\ CountTo(effects', was, "binary") = 0
    ]_vars
====
